---- MODULE Spec2Model ----
(***************************************************************************)
(* World backend: the validate-then-apply update pipeline (validator.py,   *)
(* world_engine.py), the snapshot store (storage.py) and the request layer *)
(* that holds the current world (api.py).                                  *)
(*                                                                         *)
(* Python values are modelled as follows.                                  *)
(*   str            a TLA+ string; f-strings are built with \o and ToString*)
(*   dict           a function whose domain is the set of keys present;    *)
(*                  d.get(k) is None exactly when k \notin DOMAIN d        *)
(*   list           a sequence                                             *)
(*   object         an entry of heap; a reference is an index into heap    *)
(*   exception      a record [exc |-> <class name>, ...]                   *)
(*   ISO timestamp  a tuple of integers that orders like the string (iso)  *)
(*   JSON text      a tagged tree (JStr, JNum, JArr, JObj)                 *)
(***************************************************************************)
EXTENDS Integers, Sequences, FiniteSets, TLC

VARIABLES
    heap,           \* the world dicts alive in memory, by reference
    CURRENT_WORLD,  \* api.py: reference to the current world; 0 is the empty dict {}
    files,          \* data/snapshots: snapshot id -> JSON text of the payload
    cities_rows,    \* rows of data/cities.csv as _load_cities_csv returns them
    now,            \* the UTC clock, in ticks (it stands still in Spec)
    last,           \* the last call made and what it returned or raised
    inflight        \* the handlers that run step by step: where each one is, and
                    \* the world reference and the update it holds (SpecThreads)

vars == <<heap, CURRENT_WORLD, files, cities_rows, now, last, inflight>>

----------------------------------------------------------------------------
(* Bounds of the model *)

MaxRegions == 2
MaxCitiesPerRegion == 1
MaxSnapshots == 2
TicksPerSecond == 2
SampleWindow == 1
MaxRandSpread == 0
MaxClock == 3
MaxThreads == 2
MaxObjects == 2
MaxPick == 2

----------------------------------------------------------------------------
(* Generic helpers *)

Range(s) == {s[i] : i \in DOMAIN s}

Min(a, b) == IF a < b THEN a ELSE b

RECURSIVE SetToSeq(_)
SetToSeq(S) ==
    IF S = {} THEN <<>>
    ELSE LET x == CHOOSE y \in S : TRUE IN <<x>> \o SetToSeq(S \ {x})

\* s[:n] for n >= 0
Take(s, n) == SubSeq(s, 1, Min(n, Len(s)))

\* number of occurrences of x in the list s
Count(s, x) == Cardinality({i \in DOMAIN s : s[i] = x})

\* list.remove(x): drops the first occurrence of x
Remove(s, x) ==
    LET i == CHOOSE k \in DOMAIN s : s[k] = x /\ \A j \in 1..(k - 1) : s[j] # x
    IN SubSeq(s, 1, i - 1) \o SubSeq(s, i + 1, Len(s))

\* the dict d with d[k] = v executed
DictSet(d, k, v) == [x \in DOMAIN d \cup {k} |-> IF x = k THEN v ELSE d[x]]

EmptyDict == [k \in {} |-> 0]

----------------------------------------------------------------------------
(* datetime.utcnow().isoformat() + "Z"                                     *)
(* isoformat() leaves the fraction out when the microsecond is 0. The      *)
(* string is modelled by the tuple of its fields, each character that      *)
(* follows the seconds by its code ("." is 46, "Z" is 90), so tuples order *)
(* lexicographically as the strings do.                                    *)

DotChar == 46
ZChar == 90

utcnow_iso(t) ==
    LET sec == t \div TicksPerSecond
        us == t % TicksPerSecond
    IN IF us = 0 THEN <<sec, ZChar>> ELSE <<sec, DotChar, us, ZChar>>

----------------------------------------------------------------------------
(* json.dumps / json.loads on the values the program serialises *)

JStr(s) == [t |-> "str", v |-> s]
JNum(n) == [t |-> "num", v |-> n]
JArr(items) == [t |-> "arr", v |-> items]
JObj(members) == [t |-> "obj", v |-> members]   \* members: <<key, value>> pairs

\* a dict, key by key, each value encoded by enc(key, value)
DumpDict(d, enc(_, _)) ==
    LET keys == SetToSeq(DOMAIN d)
    IN JObj([i \in 1..Len(keys) |-> <<keys[i], enc(keys[i], d[keys[i]])>>])

\* a JSON object back to a dict, each value decoded by dec(key, value)
LoadDict(j, dec(_, _)) ==
    LET keys == {j.v[i][1] : i \in DOMAIN j.v}
        val(k) == j.v[CHOOSE i \in DOMAIN j.v :
                        j.v[i][1] = k /\ \A m \in DOMAIN j.v : j.v[m][1] = k => m <= i][2]
    IN [k \in keys |-> dec(k, val(k))]

DumpStrList(s) == JArr([i \in DOMAIN s |-> JStr(s[i])])
LoadStrList(j) == [i \in DOMAIN j.v |-> j.v[i].v]

DumpCityField(k, v) ==
    CASE k = "name" -> JStr(v)
      [] k = "population" -> JNum(v)
      [] k = "attributes" -> DumpDict(v, LAMBDA a, b : JStr(b))
LoadCityField(k, j) ==
    CASE k = "name" -> j.v
      [] k = "population" -> j.v
      [] k = "attributes" -> LoadDict(j, LAMBDA a, b : b.v)

\* mutant: only name and population are written
DumpCity_NoAttributes(c) ==
    DumpDict([k \in DOMAIN c \ {"attributes"} |-> c[k]], DumpCityField)

DumpCity(c) == DumpDict(c, DumpCityField)
LoadCity(j) == LoadDict(j, LoadCityField)

DumpRegionField(k, v) == IF k = "name" THEN JStr(v) ELSE DumpStrList(v)
LoadRegionField(k, j) == IF k = "name" THEN j.v ELSE LoadStrList(j)

DumpRegion(r) == DumpDict(r, DumpRegionField)
LoadRegion(j) == LoadDict(j, LoadRegionField)

DumpWorldField(k, v) ==
    CASE k = "name" -> JStr(v)
      [] k = "regions" -> JArr([i \in DOMAIN v |-> DumpRegion(v[i])])
      [] k = "cities" -> DumpDict(v, LAMBDA a, b : DumpCity(b))
      [] k = "metadata" -> DumpDict(v, LAMBDA a, b : JStr(b))
      [] k = "created_at" -> JStr(v)
LoadWorldField(k, j) ==
    CASE k = "name" -> j.v
      [] k = "regions" -> [i \in DOMAIN j.v |-> LoadRegion(j.v[i])]
      [] k = "cities" -> LoadDict(j, LAMBDA a, b : LoadCity(b))
      [] k = "metadata" -> LoadDict(j, LAMBDA a, b : b.v)
      [] k = "created_at" -> j.v

DumpWorld(w) == DumpDict(w, DumpWorldField)
LoadWorld(j) == LoadDict(j, LoadWorldField)

\* json.dumps(payload) of create_snapshot
json_dumps(payload) ==
    JObj(<< <<"id", JStr(payload.id)>>,
            <<"tag", JStr(payload.tag)>>,
            <<"created_at", JStr(payload.created_at)>>,
            <<"world", DumpWorld(payload.world)>> >>)

\* json.loads(text) of a snapshot file
json_loads(text) ==
    LoadDict(text, LAMBDA k, j : IF k = "world" THEN LoadWorld(j) ELSE j.v)

----------------------------------------------------------------------------
(* storage.py: the snapshot store *)

\* mutant: the id does not vary from call to call
uuid4_hex_Fixed(fs) == "snap1"

\* uuid.uuid4().hex[:12]: an id no stored snapshot has
uuid4_hex(fs) == "snap" \o ToString(Cardinality(DOMAIN fs) + 1)

\* kw holds the keyword arguments given; tag defaults to None
create_snapshot(fs, world, kw, t) ==
    LET snapshot_id == uuid4_hex(fs)
        payload == [id |-> snapshot_id,
                    tag |-> IF "tag" \in DOMAIN kw /\ kw.tag # "" THEN kw.tag ELSE "",
                    created_at |-> utcnow_iso(t),
                    world |-> world]
    IN [id |-> snapshot_id,
        files |-> DictSet(fs, snapshot_id, json_dumps(payload))]

FileNotFoundError(snapshot_id) ==
    [exc |-> "FileNotFoundError", msg |-> "No snapshot with id: " \o snapshot_id]

\* mutant: a missing id falls back to the first snapshot written
load_snapshot_Fallback(fs, snapshot_id) ==
    IF snapshot_id \in DOMAIN fs THEN json_loads(fs[snapshot_id]).world
    ELSE IF "snap1" \in DOMAIN fs THEN json_loads(fs["snap1"]).world
    ELSE FileNotFoundError(snapshot_id)

load_snapshot(fs, snapshot_id) ==
    IF snapshot_id \notin DOMAIN fs
    THEN FileNotFoundError(snapshot_id)
    ELSE json_loads(fs[snapshot_id]).world

\* mutant: the id asked for is ignored
rollback_to_First(fs, snapshot_id) == load_snapshot(fs, "snap1")

rollback_to(fs, snapshot_id) == load_snapshot(fs, snapshot_id)

IsRaised(r) == "exc" \in DOMAIN r

\* a < b for two ISO timestamps compared as Python compares the strings:
\* field by field, a proper prefix being the smaller
RECURSIVE StrLess(_, _)
StrLess(a, b) ==
    IF b = <<>> THEN FALSE
    ELSE IF a = <<>> THEN TRUE
    ELSE IF a[1] # b[1] THEN a[1] < b[1]
    ELSE StrLess(Tail(a), Tail(b))

\* snapshots.sort(key=lambda s: s["created_at"], reverse=True): a stable sort,
\* entries of equal key keep the order they had
RECURSIVE SortNewestFirst(_)
SortNewestFirst(s) ==
    IF s = <<>> THEN <<>>
    ELSE LET init == SortNewestFirst(SubSeq(s, 1, Len(s) - 1))
             x == s[Len(s)]
             n == Cardinality({i \in DOMAIN init :
                                  ~StrLess(init[i].created_at, x.created_at)})
         IN SubSeq(init, 1, n) \o <<x>> \o SubSeq(init, n + 1, Len(init))

\* the orders in which SNAPSHOT_DIR.glob("*.json") may yield the files
GlobOrders(fs) ==
    {g \in [1..Cardinality(DOMAIN fs) -> DOMAIN fs] :
        \A a, b \in DOMAIN g : g[a] = g[b] => a = b}

\* glob is the order in which the directory yields the files
list_snapshots(fs, glob) ==
    LET data(i) == json_loads(fs[glob[i]])
    IN SortNewestFirst([i \in DOMAIN glob |->
                           [id |-> data(i).id,
                            tag |-> data(i).tag,
                            created_at |-> data(i).created_at]])

----------------------------------------------------------------------------
(* world_model.py: World.parse_obj succeeds *)

CityModelOk(c) ==
    /\ "name" \in DOMAIN c
    /\ "population" \in DOMAIN c
    /\ c.population >= 0

RegionModelOk(r) == "name" \in DOMAIN r

WorldModelOk(w) ==
    /\ "name" \in DOMAIN w
    /\ "regions" \in DOMAIN w => \A i \in DOMAIN w.regions : RegionModelOk(w.regions[i])
    /\ "cities" \in DOMAIN w => \A k \in DOMAIN w.cities : CityModelOk(w.cities[k])

----------------------------------------------------------------------------
(* validator.py *)

\* details is None unless given: the key is present exactly when it is not None
ValidationErrorDetail(message) == [exc |-> "ValidationErrorDetail", msg |-> message]

\* raised when World.parse_obj fails; details is str(e) of the pydantic error
InvalidWorldError ==
    [exc |-> "ValidationErrorDetail", msg |-> "Current world data is invalid",
     details |-> "validation error for World"]

Valid == [valid |-> TRUE]

\* d.get(k) is None or ""
Falsy(d, k) == k \notin DOMAIN d \/ d[k] = ""

\* {r["name"]: r for r in regions}: a later region of the same name wins
RegionNames(w) == {w.regions[i].name : i \in DOMAIN w.regions}
RegionByName(w, n) ==
    w.regions[CHOOSE i \in DOMAIN w.regions :
                 w.regions[i].name = n /\ \A j \in DOMAIN w.regions : w.regions[j].name = n => j <= i]

validate_add_city(w, u) ==
    IF Falsy(u, "region") \/ "city" \notin DOMAIN u \/ DOMAIN u.city = {}
    THEN ValidationErrorDetail("add_city requires 'region' and 'city' fields")
    ELSE IF u.region \notin RegionNames(w)
    THEN ValidationErrorDetail("Region '" \o u.region \o "' does not exist")
    ELSE IF "name" \in DOMAIN u.city /\ u.city.name \in DOMAIN w.cities
    THEN ValidationErrorDetail("City '" \o u.city.name \o "' already exists")
    ELSE IF (IF "population" \in DOMAIN u.city THEN u.city.population ELSE 0) < 0
    THEN ValidationErrorDetail("Population must be >= 0")
    ELSE Valid

validate_add_resource(w, u) ==
    IF Falsy(u, "region") \/ Falsy(u, "resource")
    THEN ValidationErrorDetail("add_resource requires 'region' and 'resource'")
    ELSE IF u.region \notin RegionNames(w)
    THEN ValidationErrorDetail("Region '" \o u.region \o "' does not exist")
    ELSE IF u.resource \in Range(RegionByName(w, u.region).resources)
    THEN ValidationErrorDetail("Resource '" \o u.resource \o "' already present in region")
    ELSE Valid

\* mutant: the city is not looked for in the from-region's list
validate_transfer_city_NoSourceCheck(w, u) ==
    IF Falsy(u, "city") \/ Falsy(u, "from") \/ Falsy(u, "to")
    THEN ValidationErrorDetail("transfer_city requires 'city', 'from', 'to'")
    ELSE IF u.from \notin RegionNames(w) \/ u.to \notin RegionNames(w)
    THEN ValidationErrorDetail("Invalid 'from' or 'to' region")
    ELSE IF u.city \notin DOMAIN w.cities
    THEN ValidationErrorDetail("City does not exist")
    ELSE Valid

validate_transfer_city(w, u) ==
    IF Falsy(u, "city") \/ Falsy(u, "from") \/ Falsy(u, "to")
    THEN ValidationErrorDetail("transfer_city requires 'city', 'from', 'to'")
    ELSE IF u.from \notin RegionNames(w) \/ u.to \notin RegionNames(w)
    THEN ValidationErrorDetail("Invalid 'from' or 'to' region")
    ELSE IF u.city \notin DOMAIN w.cities
    THEN ValidationErrorDetail("City does not exist")
    ELSE IF u.city \notin Range(RegionByName(w, u.from).cities)
    THEN ValidationErrorDetail("City not found in region '" \o u.from \o "'")
    ELSE Valid

validate_set_population(w, u) ==
    IF "city" \notin DOMAIN u \/ u.city \notin DOMAIN w.cities
    THEN ValidationErrorDetail("City does not exist")
    ELSE IF "population" \notin DOMAIN u \/ u.population < 0
    THEN ValidationErrorDetail("Population must be a non-negative integer")
    ELSE Valid

\* mutant: the op is looked at before the world is parsed
validate_update_OpFirst(w, u) ==
    IF Falsy(u, "op")
    THEN ValidationErrorDetail("Missing 'op' field in update")
    ELSE IF ~WorldModelOk(w)
    THEN InvalidWorldError
    ELSE CASE u.op = "add_city" -> validate_add_city(w, u)
           [] u.op = "add_resource" -> validate_add_resource(w, u)
           [] u.op = "transfer_city" -> validate_transfer_city(w, u)
           [] u.op = "set_population" -> validate_set_population(w, u)
           [] OTHER -> ValidationErrorDetail("Unknown operation: " \o u.op)

validate_update(w, u) ==
    IF ~WorldModelOk(w)
    THEN InvalidWorldError
    ELSE IF Falsy(u, "op")
    THEN ValidationErrorDetail("Missing 'op' field in update")
    ELSE CASE u.op = "add_city" -> validate_add_city(w, u)
           [] u.op = "add_resource" -> validate_add_resource(w, u)
           [] u.op = "transfer_city" -> validate_transfer_city(w, u)
           [] u.op = "set_population" -> validate_set_population(w, u)
           [] OTHER -> ValidationErrorDetail("Unknown operation: " \o u.op)

----------------------------------------------------------------------------
(* world_engine.py: apply_update                                           *)
(* The result of a call is [res, world, files]: what it returned or raised,*)
(* the world object as the call left it, and the snapshot store after it.  *)

KeyError(k) == [exc |-> "KeyError", msg |-> k]

\* for r in world["regions"]: if r["name"] == region_name: <append>; break
AppendToFirstRegion(regions, region_name, field, x) ==
    IF \E i \in DOMAIN regions : regions[i].name = region_name
    THEN LET f == CHOOSE i \in DOMAIN regions :
                     regions[i].name = region_name
                     /\ \A j \in 1..(i - 1) : regions[j].name # region_name
         IN [regions EXCEPT ![f] = [@ EXCEPT ![field] = Append(@, x)]]
    ELSE regions

\* mutant: the snapshot flag is ignored
Snapshotted_Always(w, snapshot, tag, fs, t) ==
    [res |-> [ok |-> TRUE],
     world |-> w,
     files |-> create_snapshot(fs, w, [tag |-> tag], t).files]

\* the snapshot step that ends a mutation branch
Snapshotted(w, snapshot, tag, fs, t) ==
    [res |-> [ok |-> TRUE],
     world |-> w,
     files |-> IF snapshot THEN create_snapshot(fs, w, [tag |-> tag], t).files ELSE fs]

\* mutant: the city is listed in the region but not put into the mapping
apply_add_city_ListOnly(w, u, snapshot, fs, t) ==
    IF "name" \notin DOMAIN u.city
    THEN [res |-> KeyError("name"), world |-> w, files |-> fs]
    ELSE LET w2 == [w EXCEPT !.regions =
                        AppendToFirstRegion(@, u.region, "cities", u.city.name)]
         IN Snapshotted(w2, snapshot, "add_city:" \o u.city.name, fs, t)

apply_add_city(w, u, snapshot, fs, t) ==
    IF "name" \notin DOMAIN u.city
    THEN [res |-> KeyError("name"), world |-> w, files |-> fs]
    ELSE LET city == u.city
             w1 == [w EXCEPT !.cities = DictSet(@, city.name, city)]
             w2 == [w1 EXCEPT !.regions =
                        AppendToFirstRegion(@, u.region, "cities", city.name)]
         IN Snapshotted(w2, snapshot, "add_city:" \o city.name, fs, t)

\* mutant: the resource is put at the head of the list
apply_add_resource_Prepend(w, u, snapshot, fs, t) ==
    LET w1 == [w EXCEPT !.regions =
                   [i \in DOMAIN @ |->
                       IF @[i].name = u.region
                       THEN [@[i] EXCEPT !.resources = <<u.resource>> \o @]
                       ELSE @[i]]]
    IN Snapshotted(w1, snapshot, "add_resource:" \o u.resource \o "@" \o u.region, fs, t)

apply_add_resource(w, u, snapshot, fs, t) ==
    LET w1 == [w EXCEPT !.regions =
                   AppendToFirstRegion(@, u.region, "resources", u.resource)]
    IN Snapshotted(w1, snapshot, "add_resource:" \o u.resource \o "@" \o u.region, fs, t)

\* mutant: the city is appended to the destination and stays in the source
apply_transfer_city_NoRemove(w, u, snapshot, fs, t) ==
    LET appended == [i \in DOMAIN w.regions |->
                        IF w.regions[i].name = u.to
                        THEN [w.regions[i] EXCEPT !.cities = Append(@, u.city)]
                        ELSE w.regions[i]]
        w1 == [w EXCEPT !.regions = appended]
    IN Snapshotted(w1, snapshot,
                   "transfer_city:" \o u.city \o ":" \o u.from \o "->" \o u.to, fs, t)

\* mutant: the city is appended to the destination only if it was removed
\* from the source
apply_transfer_city_OnlyIfRemoved(w, u, snapshot, fs, t) ==
    LET found == \E i \in DOMAIN w.regions :
                     w.regions[i].name = u.from /\ u.city \in Range(w.regions[i].cities)
        removed == [i \in DOMAIN w.regions |->
                       IF w.regions[i].name = u.from /\ u.city \in Range(w.regions[i].cities)
                       THEN [w.regions[i] EXCEPT !.cities = Remove(@, u.city)]
                       ELSE w.regions[i]]
        appended == [i \in DOMAIN removed |->
                        IF removed[i].name = u.to /\ found
                        THEN [removed[i] EXCEPT !.cities = Append(@, u.city)]
                        ELSE removed[i]]
        w1 == [w EXCEPT !.regions = appended]
    IN Snapshotted(w1, snapshot,
                   "transfer_city:" \o u.city \o ":" \o u.from \o "->" \o u.to, fs, t)

apply_transfer_city(w, u, snapshot, fs, t) ==
    LET removed == [i \in DOMAIN w.regions |->
                       IF w.regions[i].name = u.from /\ u.city \in Range(w.regions[i].cities)
                       THEN [w.regions[i] EXCEPT !.cities = Remove(@, u.city)]
                       ELSE w.regions[i]]
        appended == [i \in DOMAIN removed |->
                        IF removed[i].name = u.to
                        THEN [removed[i] EXCEPT !.cities = Append(@, u.city)]
                        ELSE removed[i]]
        w1 == [w EXCEPT !.regions = appended]
    IN Snapshotted(w1, snapshot,
                   "transfer_city:" \o u.city \o ":" \o u.from \o "->" \o u.to, fs, t)

Unsupported == [ok |-> FALSE, error |-> "Unsupported op after validation (unexpected)"]

apply_set_population(w, u, snapshot, fs, t) ==
    IF u.city \in DOMAIN w.cities
    THEN LET w1 == [w EXCEPT !.cities[u.city] = DictSet(@, "population", u.population)]
         IN Snapshotted(w1, snapshot,
                        "set_pop:" \o u.city \o ":" \o ToString(u.population), fs, t)
    ELSE [res |-> Unsupported, world |-> w, files |-> fs]

\* {"ok": False, "error": str(e), "details": getattr(e, "details", None)}
Rejected(e) ==
    IF "details" \in DOMAIN e
    THEN [ok |-> FALSE, error |-> e.msg, details |-> e.details]
    ELSE [ok |-> FALSE, error |-> e.msg]

\* mutant: the snapshot is written before the update is validated
apply_update_SnapshotFirst(w, u, snapshot, fs, t) ==
    LET v == validate_update(w, u)
        fs1 == IF snapshot THEN create_snapshot(fs, w, [tag |-> "pre"], t).files ELSE fs
    IN IF IsRaised(v)
       THEN [res |-> Rejected(v), world |-> w, files |-> fs1]
       ELSE CASE u.op = "add_city" -> apply_add_city(w, u, FALSE, fs1, t)
              [] u.op = "add_resource" -> apply_add_resource(w, u, FALSE, fs1, t)
              [] u.op = "transfer_city" -> apply_transfer_city(w, u, FALSE, fs1, t)
              [] u.op = "set_population" -> apply_set_population(w, u, FALSE, fs1, t)
              [] OTHER -> [res |-> Unsupported, world |-> w, files |-> fs1]

apply_update(w, u, snapshot, fs, t) ==
    LET v == validate_update(w, u)
    IN IF IsRaised(v)
       THEN [res |-> Rejected(v), world |-> w, files |-> fs]
       ELSE CASE u.op = "add_city" -> apply_add_city(w, u, snapshot, fs, t)
              [] u.op = "add_resource" -> apply_add_resource(w, u, snapshot, fs, t)
              [] u.op = "transfer_city" -> apply_transfer_city(w, u, snapshot, fs, t)
              [] u.op = "set_population" -> apply_set_population(w, u, snapshot, fs, t)
              [] OTHER -> [res |-> Unsupported, world |-> w, files |-> fs]

----------------------------------------------------------------------------
(* world_engine.py: generate_world                                         *)
(* rnd is the random source of one call: rnd.sample[i] is the i-th         *)
(* random.sample, rnd.pop[i][j] the randint for city j of region i and     *)
(* rnd.shuffle the permutation random.shuffle applies.                     *)

resource_pool == <<"iron", "timber", "gold", "grain", "fish", "coal", "spice">>

\* random.sample(resource_pool, k=2): SampleWindow of its outcomes
Samples ==
    {<<resource_pool[a], resource_pool[a + 1]>> :
        a \in 1..Min(SampleWindow, Len(resource_pool) - 1)}

\* random.randint(lo, hi), drawn from the low end of the range
randint(lo, hi) == lo..Min(hi, lo + MaxRandSpread)

SynthPopLo == 500
SynthPopHi == 50000
CsvPopLo == 1000
CsvPopHi == 20000

RegionName(i) == "Region_" \o ToString(i)
CityName(i, j) == "City_" \o ToString(i) \o "_" \o ToString(j)

\* the else branch: synthetic regions and cities
\* mutant: regions are numbered from 0, as range(regions_count) counts
SyntheticRegions_ZeroBased(regions_count, cities_per_region, rnd) ==
    [i \in 1..regions_count |->
        [name |-> RegionName(i - 1),
         cities |-> [j \in 1..cities_per_region |-> CityName(i, j)],
         resources |-> rnd.sample[i]]]

SyntheticRegions(regions_count, cities_per_region, rnd) ==
    [i \in 1..regions_count |->
        [name |-> RegionName(i),
         cities |-> [j \in 1..cities_per_region |-> CityName(i, j)],
         resources |-> rnd.sample[i]]]

SyntheticCities(regions_count, cities_per_region, rnd) ==
    LET idx == (1..regions_count) \X (1..cities_per_region)
        at(n) == CHOOSE p \in idx : CityName(p[1], p[2]) = n
    IN [n \in {CityName(p[1], p[2]) : p \in idx} |->
           [name |-> n, population |-> rnd.synth_pop[at(n)[1]][at(n)[2]], attributes |-> EmptyDict]]

\* by_region: the region names in order of first appearance, and each one's rows
RECURSIVE FirstSeen(_)
FirstSeen(rows) ==
    IF rows = <<>> THEN <<>>
    ELSE LET init == FirstSeen(SubSeq(rows, 1, Len(rows) - 1))
             r == rows[Len(rows)][2]
         IN IF r \in Range(init) THEN init ELSE Append(init, r)

RowsOfRegion(rows, region) == SelectSeq(rows, LAMBDA row : row[2] = region)

\* key = name; idx = 1; while key in cities: key = f"{name}_{idx}"; idx += 1
RECURSIVE UniqueKey(_, _, _, _)
UniqueKey(key, name, idx, cities) ==
    IF key \in DOMAIN cities
    THEN UniqueKey(name \o "_" \o ToString(idx), name, idx + 1, cities)
    ELSE key

\* the inner loop over regs_cities; acc is [regions, cities, name], the loop
\* variable name being the function's parameter of the same name
RECURSIVE CsvCities(_, _, _, _, _)
CsvCities(regs_cities, k, acc, ri, rnd) ==
    IF k > Len(regs_cities) THEN acc
    ELSE LET nm == regs_cities[k][1]
             pop == regs_cities[k][3]
             key == UniqueKey(nm, nm, 1, acc.cities)
             city_obj == [name |-> key,
                          population |-> IF pop # 0 THEN pop ELSE rnd.csv_pop[ri][k],
                          attributes |-> EmptyDict]
         IN CsvCities(regs_cities, k + 1,
                      [regions |-> [acc.regions EXCEPT ![ri].cities = Append(@, key)],
                       cities |-> DictSet(acc.cities, key, city_obj),
                       name |-> nm],
                      ri, rnd)

\* the outer loop over selected_regions
RECURSIVE CsvRegions(_, _, _, _, _, _)
CsvRegions(rows, selected, ri, cities_per_region, acc, rnd) ==
    IF ri > Len(selected) THEN acc
    ELSE LET region == selected[ri]
             regs_cities == Take(RowsOfRegion(rows, region), cities_per_region)
             entry == [name |-> region, cities |-> <<>>, resources |-> rnd.sample[ri]]
             acc1 == [acc EXCEPT !.regions = Append(@, entry)]
         IN CsvRegions(rows, selected, ri + 1, cities_per_region,
                       CsvCities(regs_cities, 1, acc1, ri, rnd), rnd)

\* regions, cities and the value of the variable name when the branch taken ends
GeneratedParts(name, regions_count, cities_per_region, rows, rnd) ==
    IF rows # <<>>
    THEN LET region_names == FirstSeen(rows)
             shuffled == [i \in DOMAIN region_names |-> region_names[rnd.shuffle[i]]]
             selected_regions == Take(shuffled, regions_count)
         IN CsvRegions(rows, selected_regions, 1, cities_per_region,
                       [regions |-> <<>>, cities |-> EmptyDict,
                        name |-> rows[Len(rows)][1]], rnd)
    ELSE [regions |-> SyntheticRegions(regions_count, cities_per_region, rnd),
          cities |-> SyntheticCities(regions_count, cities_per_region, rnd),
          name |-> name]

\* the result is [world, files]: the world returned and the store after the call
generate_world(name, regions_count, cities_per_region, rows, rnd, fs, t) ==
    LET parts == GeneratedParts(name, regions_count, cities_per_region, rows, rnd)
        world == [name |-> parts.name,
                  regions |-> parts.regions,
                  cities |-> parts.cities,
                  metadata |-> [generated_at |-> utcnow_iso(t)],
                  created_at |-> utcnow_iso(t)]
        snap == create_snapshot(fs, world, [tag |-> "initial-" \o parts.name], t)
    IN [world |-> [world EXCEPT !.metadata = DictSet(@, "initial_snapshot", snap.id)],
        files |-> snap.files]

----------------------------------------------------------------------------
(* world_engine.py: suggest_event                                          *)
(* rnd is the random source of one call: rnd.template is the template      *)
(* random.choice picks, rnd.pick and rnd.pick2 are the draws of the        *)
(* random.choice calls inside the template that runs.                      *)

IndexError == [exc |-> "IndexError", msg |-> "Cannot choose from an empty sequence"]

\* random.choice(seq) with draw k; it raises IndexError on an empty sequence
choice(seq, k) == IF seq = <<>> THEN IndexError ELSE seq[((k - 1) % Len(seq)) + 1]

deposits == <<"coal", "gold", "salt", "spice">>

EventRandomSources == [template : 1..4, pick : 1..MaxPick, pick2 : 1..MaxPick]

NoRegionsEvent == [event |-> "No regions to generate events for."]

Stamped(type, text, t) == [type |-> type, text |-> text, timestamp |-> utcnow_iso(t)]

suggest_event(world, rnd, t) ==
    LET regions == IF "regions" \in DOMAIN world THEN world.regions ELSE <<>>
        cities == IF "cities" \in DOMAIN world THEN world.cities ELSE EmptyDict
        keys == SetToSeq(DOMAIN cities)
        city == choice(keys, rnd.pick)
        region == choice([i \in DOMAIN regions |-> regions[i].name], rnd.pick)
        region2 == choice([i \in DOMAIN regions |-> regions[i].name], rnd.pick2)
    IN IF regions = <<>> THEN NoRegionsEvent
       ELSE CASE rnd.template = 1 ->
                   IF keys = <<>> THEN city
                   ELSE Stamped("discover_resource",
                                "City " \o city \o " discovers a deposit of "
                                   \o choice(deposits, rnd.pick2) \o ".", t)
              [] rnd.template = 2 ->
                   Stamped("drought", "Region " \o region \o " suffers a drought.", t)
              [] rnd.template = 3 ->
                   Stamped("trade_route",
                           "Trade route opens between " \o region \o " and "
                              \o region2 \o ".", t)
              [] rnd.template = 4 ->
                   IF keys = <<>> THEN city
                   ELSE Stamped("population_boost",
                                "City " \o city
                                   \o " experiences an unexpected population growth.", t)

----------------------------------------------------------------------------
(* Inputs *)

WorldNames == {"W"}

\* data/cities.csv: absent or empty, or a small dataset in which a city name
\* repeats and a population is 0
SampleRows == << <<"Frostgate", "Northland", 12000>>,
                 <<"Frostgate", "Southreach", 0>> >>

Datasets == {<<>>, SampleRows}

Perms(n) == {f \in [1..n -> 1..n] : \A a, b \in 1..n : f[a] = f[b] => a = b}

\* the random sources a call with these arguments may meet
RandomSources(regions_count, cities_per_region, rows) ==
    [sample : [1..regions_count -> Samples],
     synth_pop : [1..regions_count -> [1..cities_per_region -> randint(SynthPopLo, SynthPopHi)]],
     csv_pop : [1..regions_count -> [1..cities_per_region -> randint(CsvPopLo, CsvPopHi)]],
     shuffle : Perms(Len(FirstSeen(rows)))]

\* the names an update may mention: the first regions of the world, the city
\* that heads the first region's list, and names the world does not hold
RegionArgs(w) == {w.regions[i].name : i \in 1..Min(2, Len(w.regions))}
FirstRegion(w) == {w.regions[i].name : i \in 1..Min(1, Len(w.regions))}
FirstCity(w) ==
    {w.regions[i].cities[1] : i \in {k \in 1..Min(1, Len(w.regions)) : w.regions[k].cities # <<>>}}

CityObjects(w) ==
    {[name |-> "Newtown", population |-> 100],
     [name |-> "Newtown", population |-> -1],
     [name |-> "Newtown"],
     [population |-> 100]}
    \cup {[name |-> c, population |-> 7] : c \in FirstCity(w)}

UpdatesFor(w) ==
    {[op |-> "add_city", region |-> r, city |-> c] :
        r \in FirstRegion(w), c \in CityObjects(w)}
    \cup {[op |-> "add_city", region |-> "Atlantis", city |-> [name |-> "Newtown", population |-> 100]]}
    \cup {[op |-> "add_resource", region |-> r, resource |-> x] :
            r \in FirstRegion(w), x \in {"gold", "iron"}}
    \cup {[op |-> "add_resource", region |-> r] : r \in FirstRegion(w)}
    \cup {[op |-> "transfer_city", city |-> c, from |-> f, to |-> g] :
            c \in FirstCity(w), f \in RegionArgs(w), g \in RegionArgs(w)}
    \cup {[op |-> "transfer_city", city |-> "Ghost", from |-> f, to |-> f] : f \in FirstRegion(w)}
    \cup {[op |-> "transfer_city", city |-> "Newtown"]}
    \cup {[op |-> "set_population", city |-> c, population |-> n] :
            c \in FirstCity(w), n \in {0, -5}}
    \cup {[op |-> "set_population", city |-> c] : c \in FirstCity(w) \cup {"Ghost"}}
    \cup {[op |-> "delete_city", city |-> "Newtown"], [op |-> ""], [city |-> "Newtown"]}

\* the updates a direct caller of the engine sends
DirectUpdatesFor(w) ==
    {[op |-> "add_resource", region |-> r, resource |-> "gold"] : r \in FirstRegion(w)}
    \cup {[op |-> "transfer_city", city |-> c, from |-> f, to |-> g] :
            c \in FirstCity(w), f \in FirstRegion(w), g \in RegionArgs(w) \ FirstRegion(w)}
    \cup {[op |-> "set_population", city |-> c, population |-> -5] : c \in FirstCity(w)}

SnapshotIdArgs == {"snap" \o ToString(i) : i \in 1..(MaxSnapshots + 1)}

TagArgs == {EmptyDict, [tag |-> "manual"]}

----------------------------------------------------------------------------
(* api.py: the request layer. Each handler runs to completion. *)

\* the worker threads that run handlers, and a thread that runs none
Threads == 1..MaxThreads
Idle == [pc |-> "idle"]
NoneInFlight == [th \in Threads |-> Idle]

Init ==
    /\ heap = <<>>
    /\ CURRENT_WORLD = 0
    /\ files = EmptyDict
    /\ cities_rows \in Datasets
    /\ now = 0
    /\ last = [call |-> "start", status |-> 0]
    /\ inflight = NoneInFlight

\* the objects no reference reaches are freed
Collect(h, ref) == IF ref = 0 THEN <<>> ELSE <<h[ref]>>

SnapshotRoom(fs) == Cardinality(DOMAIN fs) <= MaxSnapshots

api_generate_world(name, regions_count, cities_per_region, rnd) ==
    LET g == generate_world(name, regions_count, cities_per_region,
                            cities_rows, rnd, files, now)
        h == Append(heap, g.world)
    IN /\ SnapshotRoom(g.files)
       /\ heap' = Collect(h, Len(h))
       /\ CURRENT_WORLD' = 1
       /\ files' = g.files
       /\ last' = [call |-> "api_generate_world", status |-> 200]
       /\ UNCHANGED <<cities_rows, now, inflight>>

NoWorld(call) ==
    /\ CURRENT_WORLD = 0
    /\ last' = [call |-> call, status |-> 400]
    /\ UNCHANGED <<heap, CURRENT_WORLD, files, cities_rows, now, inflight>>

api_generate_event(rnd) ==
    /\ CURRENT_WORLD # 0
    /\ last' = [call |-> "api_generate_event",
                status |-> IF IsRaised(suggest_event(heap[CURRENT_WORLD], rnd, now))
                           THEN 500 ELSE 200]
    /\ UNCHANGED <<heap, CURRENT_WORLD, files, cities_rows, now, inflight>>

\* mutant: the validate handler runs the update through the engine
api_validate_Applying(u) ==
    /\ CURRENT_WORLD # 0
    /\ LET r == apply_update(heap[CURRENT_WORLD], u, TRUE, files, now)
       IN /\ heap' = [heap EXCEPT ![CURRENT_WORLD] = r.world]
          /\ files' = r.files
          /\ last' = [call |-> "api_validate",
                      status |-> IF IsRaised(validate_update(heap[CURRENT_WORLD], u))
                                 THEN 400 ELSE 200]
    /\ UNCHANGED <<CURRENT_WORLD, cities_rows, now, inflight>>

api_validate(u) ==
    /\ CURRENT_WORLD # 0
    /\ last' = [call |-> "api_validate",
                status |-> IF IsRaised(validate_update(heap[CURRENT_WORLD], u))
                           THEN 400 ELSE 200]
    /\ UNCHANGED <<heap, CURRENT_WORLD, files, cities_rows, now, inflight>>

\* what a handler answers for the result of apply_update
StatusOf(res) == IF IsRaised(res) THEN 500 ELSE IF res.ok THEN 200 ELSE 400

api_apply_update(u) ==
    /\ CURRENT_WORLD # 0
    /\ LET r == apply_update(heap[CURRENT_WORLD], u, TRUE, files, now)
       IN /\ SnapshotRoom(r.files)
          /\ heap' = [heap EXCEPT ![CURRENT_WORLD] = r.world]
          /\ files' = r.files
          /\ last' = [call |-> "api_apply_update", status |-> StatusOf(r.res)]
    /\ UNCHANGED <<CURRENT_WORLD, cities_rows, now, inflight>>

api_rollback(snapshot_id) ==
    LET world == rollback_to(files, snapshot_id)
    IN IF IsRaised(world)
       THEN /\ last' = [call |-> "api_rollback", status |-> 404, id |-> snapshot_id]
            /\ UNCHANGED <<heap, CURRENT_WORLD, files, cities_rows, now, inflight>>
       ELSE LET h == Append(heap, world)
            IN /\ heap' = Collect(h, Len(h))
               /\ CURRENT_WORLD' = 1
               /\ last' = [call |-> "api_rollback", status |-> 200, id |-> snapshot_id]
               /\ UNCHANGED <<files, cities_rows, now, inflight>>

----------------------------------------------------------------------------
(* Direct calls of the engine and the store by a caller that holds the     *)
(* current world (the snapshot flag and the tag are theirs to choose).     *)

call_apply_update(u, snapshot) ==
    /\ CURRENT_WORLD # 0
    /\ LET r == apply_update(heap[CURRENT_WORLD], u, snapshot, files, now)
       IN /\ SnapshotRoom(r.files)
          /\ heap' = [heap EXCEPT ![CURRENT_WORLD] = r.world]
          /\ files' = r.files
          /\ last' = [call |-> "apply_update", status |-> StatusOf(r.res)]
    /\ UNCHANGED <<CURRENT_WORLD, cities_rows, now, inflight>>

call_create_snapshot(kw) ==
    /\ CURRENT_WORLD # 0
    /\ LET s == create_snapshot(files, heap[CURRENT_WORLD], kw, now)
       IN /\ SnapshotRoom(s.files)
          /\ files' = s.files
          /\ last' = [call |-> "create_snapshot", status |-> 200]
    /\ UNCHANGED <<heap, CURRENT_WORLD, cities_rows, now, inflight>>

\* the world the request layer holds, when it holds one
HasWorld == CURRENT_WORLD # 0
Current == heap[CURRENT_WORLD]
Requests == IF HasWorld THEN UpdatesFor(Current) ELSE {}
DirectRequests == IF HasWorld THEN DirectUpdatesFor(Current) ELSE {}

GenerateWorld ==
    \E name \in WorldNames, rc \in 0..MaxRegions, cpr \in 0..MaxCitiesPerRegion :
        \E rnd \in RandomSources(rc, cpr, cities_rows) :
            api_generate_world(name, rc, cpr, rnd)

EventWithoutWorld == NoWorld("api_generate_event")

GenerateEvent == \E rnd \in EventRandomSources : api_generate_event(rnd)

ValidateWithoutWorld == NoWorld("api_validate")

ApplyWithoutWorld == NoWorld("api_apply_update")

Validate == \E u \in Requests : api_validate(u)

ApplyUpdate == \E u \in Requests : api_apply_update(u)

DirectApplyUpdate ==
    \E u \in DirectRequests : \E snapshot \in BOOLEAN : call_apply_update(u, snapshot)

Rollback == \E id \in SnapshotIdArgs : api_rollback(id)

DirectCreateSnapshot == \E kw \in TagArgs : call_create_snapshot(kw)

Next ==
    \/ GenerateWorld
    \/ EventWithoutWorld
    \/ GenerateEvent
    \/ ValidateWithoutWorld
    \/ ApplyWithoutWorld
    \/ Validate
    \/ ApplyUpdate
    \/ DirectApplyUpdate
    \/ Rollback
    \/ DirectCreateSnapshot

Spec == Init /\ [][Next]_vars

----------------------------------------------------------------------------
(* The validator and the engine on worlds a caller hands them: SpecValidate *)
(* starts from any world of WorldInputs, conforming to the document model  *)
(* or not, with or without a region that lists a city the mapping lacks.   *)

CityListInputs == {<<>>, <<"Avon">>, <<"Ghost">>}

CityMapInputs ==
    {EmptyDict,
     [n \in {"Avon"} |-> [name |-> "Avon", population |-> 10, attributes |-> EmptyDict]],
     [n \in {"Avon"} |-> [name |-> "Avon", population |-> -1, attributes |-> EmptyDict]]}

RegionListInputs ==
    {<<[name |-> "North", cities |-> a, resources |-> <<"iron">>]>> : a \in CityListInputs}
    \cup {<<[name |-> "North", cities |-> a, resources |-> <<"iron">>],
            [name |-> "South", cities |-> b, resources |-> <<>>]>> :
            a \in CityListInputs, b \in CityListInputs}

WorldInputs ==
    {[name |-> "W", regions |-> rs, cities |-> cs, metadata |-> EmptyDict] :
        rs \in RegionListInputs, cs \in CityMapInputs}
    \cup {[regions |-> rs, cities |-> cs, metadata |-> EmptyDict] :
        rs \in RegionListInputs, cs \in CityMapInputs}

InitValidate ==
    /\ heap \in {<<w>> : w \in WorldInputs}
    /\ CURRENT_WORLD = 1
    /\ files = EmptyDict
    /\ cities_rows = <<>>
    /\ now = 0
    /\ last = [call |-> "start", status |-> 0]
    /\ inflight = NoneInFlight

NextValidate ==
    \/ Validate
    \/ DirectApplyUpdate

SpecValidate == InitValidate /\ [][NextValidate]_vars

----------------------------------------------------------------------------
(* Properties *)

\* every update the model sends to the current world
AllRequests == Requests \cup DirectRequests

Accepted(w, u) == ~IsRaised(validate_update(w, u))

\* C1: when validate_update rejects an update, apply_update returns
\* {ok: False, error: <the validator's message>}, leaves the world passed in
\* as it was and leaves the snapshot store as it was, whatever the snapshot flag.
C1_RejectedUpdateChangesNothing ==
    HasWorld =>
        \A u \in AllRequests, snapshot \in BOOLEAN :
            ~Accepted(Current, u) =>
                LET r == apply_update(Current, u, snapshot, files, now)
                IN /\ "ok" \in DOMAIN r.res
                   /\ ~r.res.ok
                   /\ r.res.error = validate_update(Current, u).msg
                   /\ r.world = Current
                   /\ r.files = files

\* a rejected update has gone through the apply-update handler of a world
\* that holds cities, with a snapshot in the store
C1_Witness ==
    /\ last.call = "api_apply_update"
    /\ last.status = 400
    /\ HasWorld
    /\ DOMAIN Current.cities # {}
    /\ DOMAIN files # {}

\* no region lists a city name that is not a key of the cities mapping
ReferencesResolve(w) ==
    \A i \in DOMAIN w.regions :
        \A k \in DOMAIN w.regions[i].cities :
            w.regions[i].cities[k] \in DOMAIN w.cities

\* C2: in every state reached from generate_world by updates that succeeded
\* and rollbacks, every city name in a region's cities list is a key of the
\* cities mapping; the same holds of every world a snapshot stores.
C2_ReferencesResolve ==
    /\ HasWorld => ReferencesResolve(Current)
    /\ \A id \in DOMAIN files : ReferencesResolve(load_snapshot(files, id))

\* the current world was loaded from a snapshot taken after add_city
C2_Witness ==
    /\ last.call = "api_rollback"
    /\ last.status = 200
    /\ "Newtown" \in DOMAIN Current.cities
    /\ \E i \in DOMAIN Current.regions : "Newtown" \in Range(Current.regions[i].cities)

IsAddCity(u) == "op" \in DOMAIN u /\ u.op = "add_city"

\* C3 as stated: for every add_city update validate_update accepts,
\* apply_update leaves the new city in the cities mapping under its name and
\* that name exactly once in the named region's cities list.
C3_AddCityAdds ==
    HasWorld =>
        \A u \in AllRequests, snapshot \in BOOLEAN :
            (IsAddCity(u) /\ Accepted(Current, u)) =>
                LET r == apply_update(Current, u, snapshot, files, now)
                IN /\ "name" \in DOMAIN u.city
                   /\ u.city.name \in DOMAIN r.world.cities
                   /\ r.world.cities[u.city.name] = u.city
                   /\ Count(RegionByName(r.world, u.region).cities, u.city.name) = 1

\* C4 as stated: on a world in which a region lists a city name that is not
\* a key of the cities mapping, validate_update rejects every update.
C4_DanglingWorldRejected ==
    (HasWorld /\ ~ReferencesResolve(Current)) =>
        \A u \in AllRequests : ~Accepted(Current, u)

\* C5: a snapshot, once written, stays: no step removes it or changes what is
\* stored under its id, so load_snapshot(id) goes on returning the same world,
\* also after the world object it was taken of has been changed in place.
C5_SnapshotsImmutable ==
    [][\A id \in DOMAIN files :
          /\ id \in DOMAIN files'
          /\ files'[id] = files[id]
          /\ load_snapshot(files', id) = load_snapshot(files, id)]_vars

\* the second snapshot was taken of the current world object, which an
\* update without snapshot has since changed in place
C5_Witness ==
    /\ last.call = "apply_update"
    /\ last.status = 200
    /\ DOMAIN files = {"snap1", "snap2"}
    /\ load_snapshot(files, "snap2") # Current
    /\ load_snapshot(files, "snap2").regions # Current.regions
    /\ load_snapshot(files, "snap2").metadata = Current.metadata

\* C6: load_snapshot(create_snapshot(world)) returns a world equal to the
\* world passed to create_snapshot, with or without a tag.
C6_RoundTrip ==
    HasWorld =>
        \A kw \in TagArgs :
            LET s == create_snapshot(files, Current, kw, now)
            IN /\ s.id \in DOMAIN s.files
               /\ load_snapshot(s.files, s.id) = Current

\* create_snapshot has just stored a world that holds regions and cities
C6_Witness ==
    /\ last.call = "create_snapshot"
    /\ DOMAIN Current.cities # {}
    /\ Current.regions # <<>>
    /\ \E id \in DOMAIN files : load_snapshot(files, id) = Current

\* the tag apply_update gives the snapshot of an update: the operation
\* (set_population as set_pop) and its arguments
TagOf(u) ==
    CASE u.op = "add_city" -> "add_city:" \o u.city.name
      [] u.op = "add_resource" -> "add_resource:" \o u.resource \o "@" \o u.region
      [] u.op = "transfer_city" -> "transfer_city:" \o u.city \o ":" \o u.from \o "->" \o u.to
      [] u.op = "set_population" -> "set_pop:" \o u.city \o ":" \o ToString(u.population)

Succeeded(r) == r.res = [ok |-> TRUE]

\* C7: an apply_update call that succeeds with snapshot=True adds exactly one
\* snapshot, which stores the world as mutated under a tag that names the
\* operation, and keeps the others; one that succeeds with snapshot=False
\* leaves the store as it was.
C7_OneSnapshotPerUpdate ==
    HasWorld =>
        \A u \in AllRequests :
            LET r == apply_update(Current, u, TRUE, files, now)
                q == apply_update(Current, u, FALSE, files, now)
                added == DOMAIN r.files \ DOMAIN files
            IN /\ Succeeded(r) =>
                    /\ Cardinality(added) = 1
                    /\ DOMAIN files \subseteq DOMAIN r.files
                    /\ \A id \in DOMAIN files : r.files[id] = files[id]
                    /\ \A id \in added :
                          /\ load_snapshot(r.files, id) = r.world
                          /\ json_loads(r.files[id]).tag = TagOf(u)
               /\ Succeeded(q) => q.files = files
               /\ Succeeded(q) <=> Succeeded(r)

\* after the snapshot of an add_resource update, a further update has
\* succeeded without adding a snapshot
C7_Witness ==
    /\ last.call = "apply_update"
    /\ last.status = 200
    /\ DOMAIN files = {"snap1", "snap2"}
    /\ json_loads(files["snap2"]).tag = "add_resource:gold@Region_1"
    /\ load_snapshot(files, "snap2") # Current

\* C8: a rollback to a stored snapshot makes the current world the world
\* load_snapshot returns for that id, which is what rollback_to returns, and
\* leaves the store as it was.
C8_RollbackLoads ==
    [][(last'.call = "api_rollback" /\ last'.status = 200) =>
          /\ last'.id \in DOMAIN files
          /\ files' = files
          /\ CURRENT_WORLD' # 0
          /\ heap'[CURRENT_WORLD'] = load_snapshot(files, last'.id)
          /\ rollback_to(files, last'.id) = load_snapshot(files, last'.id)]_vars

\* the second snapshot has been rolled back to
C8_Witness ==
    /\ last.call = "api_rollback"
    /\ last.status = 200
    /\ last.id = "snap2"
    /\ Current = load_snapshot(files, "snap2")
    /\ Current # load_snapshot(files, "snap1")

\* C9: for an id no snapshot has, load_snapshot and rollback_to raise
\* FileNotFoundError, and the rollback handler answers 404 and leaves the
\* store, the heap and the current-world reference as they were.
C9_MissingSnapshot ==
    [][/\ \A id \in SnapshotIdArgs \ DOMAIN files :
             /\ load_snapshot(files, id) = FileNotFoundError(id)
             /\ rollback_to(files, id) = FileNotFoundError(id)
       /\ (last'.call = "api_rollback" /\ last'.id \notin DOMAIN files) =>
             /\ last'.status = 404
             /\ UNCHANGED <<heap, CURRENT_WORLD, files>>]_vars

\* a rollback to a missing id has been refused while a world is current and
\* the store holds a snapshot
C9_Witness ==
    /\ last.call = "api_rollback"
    /\ last.status = 404
    /\ last.id \notin DOMAIN files
    /\ HasWorld
    /\ DOMAIN files # {}

IsAddResource(u) == "op" \in DOMAIN u /\ u.op = "add_resource"

\* C10: an accepted add_resource update leaves the region's resources equal
\* to the list before with the resource appended; the same update is then
\* rejected with "Resource '<x>' already present in region", and applying it
\* again changes neither the world nor the store.
C10_AddResourceAppends ==
    HasWorld =>
        \A u \in AllRequests, snapshot \in BOOLEAN :
            (IsAddResource(u) /\ Accepted(Current, u)) =>
                LET r == apply_update(Current, u, snapshot, files, now)
                    again == apply_update(r.world, u, snapshot, r.files, now)
                IN /\ Succeeded(r)
                   /\ RegionByName(r.world, u.region).resources =
                        Append(RegionByName(Current, u.region).resources, u.resource)
                   /\ validate_update(r.world, u) =
                        ValidationErrorDetail("Resource '" \o u.resource
                                              \o "' already present in region")
                   /\ again.res = [ok |-> FALSE,
                                   error |-> "Resource '" \o u.resource
                                             \o "' already present in region"]
                   /\ again.world = r.world
                   /\ again.files = r.files

\* gold has been added to a region that already had resources, and the
\* update sent again was refused
C10_Witness ==
    /\ last.call = "api_apply_update"
    /\ last.status = 400
    /\ HasWorld
    /\ \E i \in DOMAIN Current.regions :
          LET res == Current.regions[i].resources
          IN Len(res) = 3 /\ res[3] = "gold"
    /\ \E u \in Requests :
          /\ IsAddResource(u)
          /\ validate_update(Current, u) =
                ValidationErrorDetail("Resource 'gold' already present in region")

IsTransferCity(u) == "op" \in DOMAIN u /\ u.op = "transfer_city"

\* everything a transfer must leave alone: the cities mapping, the regions
\* other than from and to, every region's name and resources, and the rest
\* of the world
TransferFrame(w, r, u) ==
    /\ r.world.cities = w.cities
    /\ DOMAIN r.world = DOMAIN w
    /\ \A k \in DOMAIN w \ {"regions", "cities"} : r.world[k] = w[k]
    /\ Len(r.world.regions) = Len(w.regions)
    /\ \A i \in DOMAIN w.regions :
          /\ r.world.regions[i].name = w.regions[i].name
          /\ r.world.regions[i].resources = w.regions[i].resources
          /\ w.regions[i].name \notin {u.from, u.to} =>
                r.world.regions[i] = w.regions[i]

\* C11 as stated: after every accepted transfer_city the city is no longer
\* in the from-region's list and is the last element of the to-region's list,
\* and the city's record, the other regions and all resources are unchanged.
C11_TransferMoves ==
    HasWorld =>
        \A u \in AllRequests, snapshot \in BOOLEAN :
            (IsTransferCity(u) /\ Accepted(Current, u)) =>
                LET r == apply_update(Current, u, snapshot, files, now)
                    F == RegionByName(r.world, u.from).cities
                    T == RegionByName(r.world, u.to).cities
                IN /\ Succeeded(r)
                   /\ u.city \notin Range(F)
                   /\ T # <<>> /\ T[Len(T)] = u.city
                   /\ TransferFrame(Current, r, u)

\* C11, amended: the city leaves the from-region's list only when from and to
\* differ. For every accepted transfer_city the to-region's list ends with the
\* city; when from # to the from-region's list is the old one without the
\* city and the to-region's list the old one with the city appended; when
\* from = to the city moves to the end of that region's list and stays in it.
\* The city's record, the other regions and all resources are unchanged.
C11_TransferMovesBetweenRegions ==
    HasWorld =>
        \A u \in AllRequests, snapshot \in BOOLEAN :
            (IsTransferCity(u) /\ Accepted(Current, u)) =>
                LET r == apply_update(Current, u, snapshot, files, now)
                    F0 == RegionByName(Current, u.from).cities
                    T0 == RegionByName(Current, u.to).cities
                    F == RegionByName(r.world, u.from).cities
                    T == RegionByName(r.world, u.to).cities
                IN /\ Succeeded(r)
                   /\ T # <<>> /\ T[Len(T)] = u.city
                   /\ TransferFrame(Current, r, u)
                   /\ u.from # u.to =>
                         /\ u.city \notin Range(F)
                         /\ F = Remove(F0, u.city)
                         /\ T = Append(T0, u.city)
                   /\ u.from = u.to =>
                         /\ T = Append(Remove(T0, u.city), u.city)
                         /\ Count(T, u.city) = 1

\* a city has been moved into the second region, which now lists two cities,
\* and the first region lists none
C11_Witness ==
    /\ last.call = "api_apply_update"
    /\ last.status = 200
    /\ HasWorld
    /\ Len(Current.regions) = 2
    /\ Current.regions[1].cities = <<>>
    /\ Len(Current.regions[2].cities) = 2
    /\ \A c \in Range(Current.regions[2].cities) : c \in DOMAIN Current.cities

\* C12 as stated: in every state reached from generate_world by updates that
\* succeeded and rollbacks, every city of the cities mapping has a population
\* and it is a non-negative integer; the same holds of every stored world.
C12_PopulationNonNegative ==
    /\ HasWorld =>
          \A k \in DOMAIN Current.cities :
              /\ "population" \in DOMAIN Current.cities[k]
              /\ Current.cities[k].population \in Nat
    /\ \A id \in DOMAIN files :
          \A k \in DOMAIN load_snapshot(files, id).cities :
              /\ "population" \in DOMAIN load_snapshot(files, id).cities[k]
              /\ load_snapshot(files, id).cities[k].population \in Nat

\* C13: validate_update is only read from: a validate request, accepted or
\* rejected, leaves every world object, the current-world reference and the
\* snapshot store as they were.
C13_ValidateIsPure ==
    [][last'.call = "api_validate" =>
          /\ heap' = heap
          /\ CURRENT_WORLD' = CURRENT_WORLD
          /\ files' = files]_vars

\* an update the engine would apply has been validated, and accepted, on a
\* world that holds cities
C13_Witness ==
    /\ last.call = "api_validate"
    /\ last.status = 200
    /\ HasWorld
    /\ DOMAIN Current.cities # {}
    /\ \E u \in Requests :
          /\ Accepted(Current, u)
          /\ apply_update(Current, u, TRUE, files, now).world # Current

SupportedOps == {"add_city", "add_resource", "transfer_city", "set_population"}

\* C14: validate_update checks the world first, then the op. A world that
\* does not conform to the document model is rejected with "Current world
\* data is invalid" whatever the update; on a conforming world a missing or
\* empty op is rejected with "Missing 'op' field in update" and an op outside
\* the four supported ones with "Unknown operation: <op>".
C14_ValidationOrder ==
    HasWorld =>
        \A u \in AllRequests :
            LET v == validate_update(Current, u)
            IN /\ ~WorldModelOk(Current) =>
                     /\ IsRaised(v)
                     /\ v.msg = "Current world data is invalid"
               /\ (WorldModelOk(Current) /\ Falsy(u, "op")) =>
                     v = ValidationErrorDetail("Missing 'op' field in update")
               /\ (WorldModelOk(Current) /\ ~Falsy(u, "op") /\ u.op \notin SupportedOps) =>
                     v = ValidationErrorDetail("Unknown operation: " \o u.op)

\* a world that does not conform (a negative population, or no name) has been
\* validated against, with updates without op and with an unknown op at hand
C14_Witness ==
    /\ last.call = "api_validate"
    /\ last.status = 400
    /\ HasWorld
    /\ ~WorldModelOk(Current)
    /\ \E u \in Requests : Falsy(u, "op")
    /\ \E u \in Requests : ~Falsy(u, "op") /\ u.op \notin SupportedOps

\* C15: with no dataset, generate_world(name, n, m) gives exactly n regions
\* named Region_1..Region_n, each listing exactly the m cities City_i_1..
\* City_i_m, all of them keys of the cities mapping (which has no other key),
\* and adds exactly one snapshot, tagged initial-<name>, to the store.
C15_SyntheticWorldShape ==
    cities_rows = <<>> =>
        \A name \in WorldNames, n \in 0..MaxRegions, m \in 0..MaxCitiesPerRegion :
            \A rnd \in RandomSources(n, m, cities_rows) :
                LET g == generate_world(name, n, m, cities_rows, rnd, files, now)
                    added == DOMAIN g.files \ DOMAIN files
                IN /\ Len(g.world.regions) = n
                   /\ \A i \in 1..n :
                         /\ g.world.regions[i].name = "Region_" \o ToString(i)
                         /\ Len(g.world.regions[i].cities) = m
                         /\ \A j \in 1..m :
                               /\ g.world.regions[i].cities[j] =
                                     "City_" \o ToString(i) \o "_" \o ToString(j)
                               /\ g.world.regions[i].cities[j] \in DOMAIN g.world.cities
                   /\ Cardinality(DOMAIN g.world.cities) = n * m
                   /\ g.world.name = name
                   /\ Cardinality(added) = 1
                   /\ \A id \in DOMAIN files : g.files[id] = files[id]
                   /\ \A id \in added : json_loads(g.files[id]).tag = "initial-" \o name

\* a world of two regions of one city each has been generated without a
\* dataset, into a store that already held a snapshot
C15_Witness ==
    /\ last.call = "api_generate_world"
    /\ cities_rows = <<>>
    /\ HasWorld
    /\ Len(Current.regions) = 2
    /\ Current.regions[2].cities = <<"City_2_1">>
    /\ Cardinality(DOMAIN files) = 2
    /\ json_loads(files["snap2"]).tag = "initial-W"

----------------------------------------------------------------------------
(* The store under a running clock: SpecClock lets time pass between calls *)
(* and has the snapshots listed. Two snapshots are never written at the    *)
(* same microsecond.                                                       *)

Tick ==
    /\ now < MaxClock
    /\ now' = now + 1
    /\ UNCHANGED <<heap, CURRENT_WORLD, files, cities_rows, last, inflight>>

\* the clock has moved on since the last snapshot was written
ClockAdvanced ==
    \A id \in DOMAIN files : json_loads(files[id]).created_at # utcnow_iso(now)

api_snapshots(glob) ==
    /\ last' = [call |-> "api_snapshots", status |-> 200,
                ids |-> [i \in DOMAIN glob |-> list_snapshots(files, glob)[i].id]]
    /\ UNCHANGED <<heap, CURRENT_WORLD, files, cities_rows, now, inflight>>

ClockedGenerateWorld == ClockAdvanced /\ GenerateWorld

ClockedCreateSnapshot == ClockAdvanced /\ DirectCreateSnapshot

ListSnapshots == \E glob \in GlobOrders(files) : api_snapshots(glob)

NextClock ==
    \/ Tick
    \/ ClockedGenerateWorld
    \/ ClockedCreateSnapshot
    \/ ListSnapshots

SpecClock == Init /\ [][NextClock]_vars

\* the ids of the stored snapshots in the order in which they were created
\* (uuid4_hex numbers them)
CreationOrder(fs) == [i \in 1..Cardinality(DOMAIN fs) |-> "snap" \o ToString(i)]

Reverse(s) == [i \in DOMAIN s |-> s[Len(s) + 1 - i]]

\* C16 as stated: list_snapshots returns one entry per stored snapshot, in
\* the reverse of the order in which the snapshots were created, in whatever
\* order the directory yields the files.
C16_ListNewestFirst ==
    \A glob \in GlobOrders(files) :
        LET l == list_snapshots(files, glob)
        IN /\ Len(l) = Cardinality(DOMAIN files)
           /\ [i \in DOMAIN l |-> l[i].id] = Reverse(CreationOrder(files))

----------------------------------------------------------------------------
(* Handlers on worker threads: the request handlers are plain functions,   *)
(* which the server runs on a pool of threads with no lock around          *)
(* CURRENT_WORLD. SpecThreads runs the apply-update handler step by step   *)
(* (read the reference, validate, mutate in place, write the snapshot,     *)
(* assign the reference), one handler per thread, next to generate and     *)
(* rollback handlers. No object is freed while a handler may hold it.      *)

Running(th, pc) == inflight[th].pc = pc

Goto(th, pc) == inflight' = [inflight EXCEPT ![th].pc = pc]

Done(th, status) ==
    /\ inflight' = [inflight EXCEPT ![th] = Idle]
    /\ last' = [call |-> "api_apply_update", status |-> status, thread |-> th]

\* api.py: the handler reads CURRENT_WORLD and passes it to apply_update
t_begin(th, u) ==
    /\ Running(th, "idle")
    /\ CURRENT_WORLD # 0
    /\ inflight' = [inflight EXCEPT ![th] = [pc |-> "validate", world |-> CURRENT_WORLD, u |-> u]]
    /\ UNCHANGED <<heap, CURRENT_WORLD, files, cities_rows, now, last>>

\* apply_update: validate first
t_validate(th) ==
    /\ Running(th, "validate")
    /\ IF IsRaised(validate_update(heap[inflight[th].world], inflight[th].u))
       THEN Done(th, 400)
       ELSE Goto(th, "mutate") /\ UNCHANGED last
    /\ UNCHANGED <<heap, CURRENT_WORLD, files, cities_rows, now>>

\* the branch of the op up to its snapshot step, on the world as it is now
Mutated(w, u) ==
    CASE u.op = "add_city" -> apply_add_city(w, u, FALSE, EmptyDict, 0)
      [] u.op = "add_resource" -> apply_add_resource(w, u, FALSE, EmptyDict, 0)
      [] u.op = "transfer_city" -> apply_transfer_city(w, u, FALSE, EmptyDict, 0)
      [] u.op = "set_population" -> apply_set_population(w, u, FALSE, EmptyDict, 0)
      [] OTHER -> [res |-> Unsupported, world |-> w, files |-> EmptyDict]

t_mutate(th) ==
    /\ Running(th, "mutate")
    /\ LET ref == inflight[th].world
           r == Mutated(heap[ref], inflight[th].u)
       IN /\ heap' = [heap EXCEPT ![ref] = r.world]
          /\ IF Succeeded(r)
             THEN Goto(th, "snapshot") /\ UNCHANGED last
             ELSE Done(th, StatusOf(r.res))
    /\ UNCHANGED <<CURRENT_WORLD, files, cities_rows, now>>

\* create_snapshot(world, tag=...) writes the file
t_snapshot(th) ==
    /\ Running(th, "snapshot")
    /\ LET s == create_snapshot(files, heap[inflight[th].world],
                                [tag |-> TagOf(inflight[th].u)], now)
       IN /\ Cardinality(DOMAIN s.files) <= MaxSnapshots + 1
          /\ files' = s.files
    /\ Goto(th, "assign")
    /\ UNCHANGED <<heap, CURRENT_WORLD, cities_rows, now, last>>

\* mutant: a failed write puts the world back to the newest stored snapshot
t_snapshot_fails_Undo(th) ==
    /\ Running(th, "snapshot")
    /\ DOMAIN files # {}
    /\ heap' = [heap EXCEPT ![inflight[th].world] =
                   load_snapshot(files, CreationOrder(files)[Cardinality(DOMAIN files)])]
    /\ Done(th, 500)
    /\ UNCHANGED <<CURRENT_WORLD, files, cities_rows, now>>

\* path.write_text raises OSError before a file exists: nothing catches it,
\* the handler ends with a server error
t_snapshot_fails(th) ==
    /\ Running(th, "snapshot")
    /\ Done(th, 500)
    /\ UNCHANGED <<heap, CURRENT_WORLD, files, cities_rows, now>>

\* mutant: the reference is assigned only if nobody replaced it meanwhile
t_assign_IfCurrent(th) ==
    /\ Running(th, "assign")
    /\ CURRENT_WORLD' = CURRENT_WORLD
    /\ Done(th, 200)
    /\ UNCHANGED <<heap, files, cities_rows, now>>

\* api.py: CURRENT_WORLD = res["world"], the object the handler was given
t_assign(th) ==
    /\ Running(th, "assign")
    /\ CURRENT_WORLD' = inflight[th].world
    /\ Done(th, 200)
    /\ UNCHANGED <<heap, files, cities_rows, now>>

\* the generate handler, start to end
t_generate_world(name, regions_count, cities_per_region, rnd) ==
    LET g == generate_world(name, regions_count, cities_per_region,
                            cities_rows, rnd, files, now)
    IN /\ Len(heap) < MaxObjects
       /\ SnapshotRoom(g.files)
       /\ heap' = Append(heap, g.world)
       /\ CURRENT_WORLD' = Len(heap) + 1
       /\ files' = g.files
       /\ last' = [call |-> "api_generate_world", status |-> 200]
       /\ UNCHANGED <<cities_rows, now, inflight>>

\* the rollback handler, start to end
t_rollback(snapshot_id) ==
    LET world == rollback_to(files, snapshot_id)
    IN IF IsRaised(world)
       THEN /\ last' = [call |-> "api_rollback", status |-> 404, id |-> snapshot_id]
            /\ UNCHANGED <<heap, CURRENT_WORLD, files, cities_rows, now, inflight>>
       ELSE /\ Len(heap) < MaxObjects
            /\ heap' = Append(heap, world)
            /\ CURRENT_WORLD' = Len(heap) + 1
            /\ last' = [call |-> "api_rollback", status |-> 200, id |-> snapshot_id]
            /\ UNCHANGED <<files, cities_rows, now, inflight>>

\* the updates the handlers on threads are sent: the transfer of the first
\* region's head city to the second region, and an update that is rejected
ThreadRequests == {u \in DirectRequests : u.op # "add_resource"}

ThreadBegin == \E th \in Threads : \E u \in ThreadRequests : t_begin(th, u)

ThreadValidate == \E th \in Threads : t_validate(th)

ThreadMutate == \E th \in Threads : t_mutate(th)

ThreadSnapshot == \E th \in Threads : t_snapshot(th)

ThreadSnapshotFails == \E th \in Threads : t_snapshot_fails(th)

ThreadAssign == \E th \in Threads : t_assign(th)

ThreadGenerateWorld ==
    \E name \in WorldNames :
        \E rnd \in RandomSources(MaxRegions, MaxCitiesPerRegion, cities_rows) :
            t_generate_world(name, MaxRegions, MaxCitiesPerRegion, rnd)

ThreadRollback == \E id \in SnapshotIdArgs : t_rollback(id)

NextThreads ==
    \/ ThreadBegin
    \/ ThreadValidate
    \/ ThreadMutate
    \/ ThreadSnapshot
    \/ ThreadSnapshotFails
    \/ ThreadAssign
    \/ ThreadGenerateWorld
    \/ ThreadRollback

\* no dataset: the worlds are the synthetic ones
InitThreads ==
    /\ Init
    /\ cities_rows = <<>>

SpecThreads == InitThreads /\ [][NextThreads]_vars

\* C17: the apply-update handler that finishes assigns the reference it read
\* when it started, whatever CURRENT_WORLD has become meanwhile: a world a
\* concurrent generate or rollback installed in between is discarded.
C17_LastWriteWins ==
    [][\A th \in Threads :
          (inflight[th].pc = "assign" /\ inflight'[th].pc = "idle") =>
              /\ CURRENT_WORLD' = inflight[th].world
              /\ heap' = heap]_vars

\* a second world was installed by generate or rollback while a handler held
\* the first; the handler has finished since and the first is current again
C17_Witness ==
    /\ last.call = "api_apply_update"
    /\ last.status = 200
    /\ Len(heap) = 2
    /\ CURRENT_WORLD = 1
    /\ heap[2] # heap[1]

\* C18: a transfer_city handler that passed validation and comes to mutate
\* after the city has left the source region removes nothing and still
\* appends the city to the destination region's list.
C18_AppendWithoutRemoval ==
    [][\A th \in Threads :
          (/\ inflight[th].pc = "mutate"
           /\ inflight'[th].pc # "mutate"
           /\ IsTransferCity(inflight[th].u)
           /\ inflight[th].u.city \notin
                 Range(RegionByName(heap[inflight[th].world], inflight[th].u.from).cities))
          => LET u == inflight[th].u
                 w == heap[inflight[th].world]
                 w1 == heap'[inflight[th].world]
             IN /\ inflight'[th].pc = "snapshot"
                /\ RegionByName(w1, u.from).cities = RegionByName(w, u.from).cities
                /\ RegionByName(w1, u.to).cities =
                      Append(RegionByName(w, u.to).cities, u.city)]_vars

\* two identical transfers have both mutated the world: the city is listed
\* twice in the destination region and not in the source region
C18_Witness ==
    \E k \in DOMAIN heap :
        /\ Len(heap[k].regions) = 2
        /\ heap[k].regions[1].cities = <<>>
        /\ \E c \in DOMAIN heap[k].cities : Count(heap[k].regions[2].cities, c) = 2

\* C19: when the handler comes to write the snapshot the mutation is already
\* in the world object; a write that fails ends the handler with a server
\* error and leaves the mutated world, the current-world reference and the
\* store as they are: nothing is undone and no snapshot is added.
C19_FailedWriteKeepsMutation ==
    [][\A th \in Threads :
          inflight[th].pc = "snapshot" =>
              /\ IsTransferCity(inflight[th].u) =>
                    inflight[th].u.city \in
                       Range(RegionByName(heap[inflight[th].world], inflight[th].u.to).cities)
              /\ inflight'[th].pc = "idle" =>
                    /\ last' = [call |-> "api_apply_update", status |-> 500, thread |-> th]
                    /\ heap' = heap
                    /\ CURRENT_WORLD' = CURRENT_WORLD
                    /\ files' = files]_vars

\* the snapshot write of a transfer has failed: the one world object, which
\* is the current world, has the city in the second region, and the store
\* holds only the initial snapshot, which has it in the first
C19_Witness ==
    /\ last.call = "api_apply_update"
    /\ last.status = 500
    /\ Len(heap) = 1
    /\ CURRENT_WORLD = 1
    /\ Current.regions[1].cities = <<>>
    /\ Current.regions[2].cities = <<"City_2_1", "City_1_1">>
    /\ DOMAIN files = {"snap1"}
    /\ load_snapshot(files, "snap1").regions[1].cities = <<"City_1_1">>

EventTypes == {"discover_resource", "drought", "trade_route", "population_boost"}

\* C20 as stated: suggest_event returns the "no regions" event for a world
\* without regions and, for every world with at least one region, with or
\* without cities, an event of one of the four types, whatever the random
\* source picks.
C20_SuggestEventReturns ==
    HasWorld =>
        \A rnd \in EventRandomSources :
            LET e == suggest_event(Current, rnd, now)
            IN IF Current.regions = <<>>
               THEN e = NoRegionsEvent
               ELSE /\ ~IsRaised(e)
                    /\ e.type \in EventTypes

\* the places, over all regions' cities lists, at which the name c stands
ListedAt(w, c) ==
    {p \in UNION {{<<i, k>> : k \in DOMAIN w.regions[i].cities} : i \in DOMAIN w.regions} :
        w.regions[p[1]].cities[p[2]] = c}

\* every city of the mapping is listed by exactly one region, exactly once
ListedExactlyOnce(w) == \A c \in DOMAIN w.cities : Cardinality(ListedAt(w, c)) = 1

\* C21: with handlers that run one after the other, in every state reached
\* from generate_world by updates that succeeded and rollbacks, every city of
\* the cities mapping stands in exactly one region's cities list and exactly
\* once there. An accepted transfer_city applied a second time leaves no
\* duplicate: between two different regions the second call is rejected and
\* changes nothing.
C21_EachCityListedOnce ==
    HasWorld =>
        /\ ListedExactlyOnce(Current)
        /\ \A u \in AllRequests :
              (IsTransferCity(u) /\ Accepted(Current, u)) =>
                  LET r == apply_update(Current, u, TRUE, files, now)
                      again == apply_update(r.world, u, TRUE, r.files, now)
                  IN /\ ListedExactlyOnce(r.world)
                     /\ ListedExactlyOnce(again.world)
                     /\ u.from # u.to =>
                           /\ again.res = [ok |-> FALSE,
                                           error |-> "City not found in region '"
                                                     \o u.from \o "'"]
                           /\ again.world = r.world

\* a city has been transferred into the second region, and the same transfer
\* sent again has been refused: the second region lists it once
C21_Witness ==
    /\ last.call = "api_apply_update"
    /\ last.status = 400
    /\ HasWorld
    /\ Len(Current.regions) = 2
    /\ Current.regions[1].cities = <<>>
    /\ Len(Current.regions[2].cities) = 2
    /\ ~Accepted(Current, [op |-> "transfer_city",
                           city |-> Current.regions[2].cities[2],
                           from |-> Current.regions[1].name,
                           to |-> Current.regions[2].name])
    /\ ListedExactlyOnce(Current)

\* C22 as stated: right after generate_world, after every apply-update
\* request that succeeded and after every rollback that succeeded, the
\* current world equals the world some snapshot stores; after generate_world
\* it is the snapshot whose id metadata.initial_snapshot records.
C22_CurrentWorldIsStored ==
    /\ (last.call \in {"api_apply_update", "api_rollback"} /\ last.status = 200) =>
          \E id \in DOMAIN files : load_snapshot(files, id) = Current
    /\ last.call = "api_generate_world" =>
          /\ "initial_snapshot" \in DOMAIN Current.metadata
          /\ Current.metadata.initial_snapshot \in DOMAIN files
          /\ load_snapshot(files, Current.metadata.initial_snapshot) = Current

\* C23 as stated: for every update validate_update accepts, apply_update
\* reaches a mutation branch and returns {ok: True, world}: it neither
\* returns "Unsupported op after validation" nor ends in any other way.
C23_AcceptedUpdateApplies ==
    HasWorld =>
        \A u \in AllRequests, snapshot \in BOOLEAN :
            Accepted(Current, u) =>
                LET r == apply_update(Current, u, snapshot, files, now)
                IN /\ r.res # Unsupported
                   /\ ~IsRaised(r.res)
                   /\ Succeeded(r)

====
